---- MODULE Spec2Model ----
(***************************************************************************)
(* Model of the MklToTf kernel, tensorflow/core/kernels/mkl_tfconv_op.cc.  *)
(*                                                                         *)
(* A fixed table of kernel instances (one per NodeDef) is constructed by   *)
(* Init.  The host runtime runs Compute concurrently on worker threads;    *)
(* every thread runs one invocation on a kernel and an input of its own    *)
(* choosing.  A failed CHECK_EQ is LOG(FATAL): it ends the whole process.  *)
(***************************************************************************)
EXTENDS Integers, Sequences, FiniteSets, TLC

VARIABLES
    data_format_str,  \* kernel -> member data_format_str (line 116)
    op_data_type,     \* kernel -> member op_data_type (line 119)
    pc,               \* invocation -> position in Compute
    input,            \* invocation -> kernel, input tensor and its MklShape
    shape_size,       \* invocation -> local vector of (size, stride) pairs
    output_shape,     \* invocation -> local TensorShape (sequence of dims)
    output_tensor,    \* invocation -> local Tensor* (line 95)
    out_slot,         \* invocation -> tensor held by output 0 of its context
    ctx_status,       \* invocation -> status of its OpKernelContext
    trace,            \* invocation -> calls made so far, in order
    aborted           \* TRUE once a CHECK has ended the process

vars == << data_format_str, op_data_type, pc, input, shape_size, output_shape,
           output_tensor, out_slot, ctx_status, trace, aborted >>

(***************************************************************************)
(* Bounds and input domains.                                               *)
(***************************************************************************)
\* largest number of dimensions of an MklShape handed to Compute
MaxDim == 3

\* concurrent invocations (worker threads of the host runtime)
Invocations == {"t1", "t2"}

\* (size, stride) pairs a descriptor is built from: a stride tie with
\* different sizes, distinct strides, and (by repetition) identical pairs
PairSet == { <<5, 4>>, <<2, 4>>, <<3, 1>> }

\* kernel instances and the NodeDef each was built from
Kernels == {"k1", "k2", "k3", "k4"}

NodeDef(k) ==
    CASE k = "k1" -> [data_format |-> "NHWC", T |-> "DT_FLOAT",
                      input_type |-> "DT_FLOAT", output_type |-> "DT_FLOAT"]
      [] k = "k2" -> [data_format |-> "NCHW", T |-> "DT_FLOAT",
                      input_type |-> "DT_FLOAT", output_type |-> "DT_FLOAT"]
      [] k = "k3" -> [data_format |-> "NHWC", T |-> "DT_FLOAT",
                      input_type |-> "DT_DOUBLE", output_type |-> "DT_FLOAT"]
      [] k = "k4" -> [data_format |-> "NCHW", T |-> "DT_FLOAT",
                      input_type |-> "DT_FLOAT", output_type |-> "DT_DOUBLE"]

\* OpKernel::input_type(0), OpKernel::output_type(0) of a kernel instance
input_type(k)  == NodeDef(k).input_type
output_type(k) == NodeDef(k).output_type

(***************************************************************************)
(* Tensors, buffers and descriptors.                                       *)
(***************************************************************************)
NullTensor == << "null", "null" >>
InputTensor(i) == << "input", i >>
AllocatedTensor(i) == << "allocated", i >>
TfLayout(i) == << "tf_layout", i >>

\* Tensor::flat<T>().data(): the buffer of a tensor
Buffer(t) ==
    CASE t[1] = "input" -> << "input_buffer", t[2] >>
      [] t[1] = "allocated" -> << "allocated_buffer", t[2] >>
      [] OTHER -> << "null_buffer", t[2] >>

\* MklShape of a plain Tf tensor: not an MKL tensor, no dimensions
TfShape ==
    [isMklTensor |-> FALSE, dimension |-> 0, sizes |-> << >>,
     strides |-> << >>, tfLayout |-> NullTensor]

\* MklShape of an MKL tensor whose dimensions are the pairs p, in p's order
MklShapeOf(i, p) ==
    [isMklTensor |-> TRUE, dimension |-> Len(p),
     sizes |-> [k \in 1..Len(p) |-> p[k][1]],
     strides |-> [k \in 1..Len(p) |-> p[k][2]],
     tfLayout |-> TfLayout(i)]

Descriptors == UNION { [1..n -> PairSet] : n \in 1..MaxDim }

\* a wider choice of pairs for a single invocation: the pairs above, those of
\* a dense 4x2x3 tensor, and a degenerate dimension of size 1
WidePairSet == PairSet \cup { <<4, 12>>, <<2, 6>>, <<1, 1>> }

WideDescriptors == UNION { [1..n -> WidePairSet] : n \in 1..MaxDim }

(***************************************************************************)
(* Shape reconstruction, lines 74-92.                                      *)
(***************************************************************************)
\* the loop of lines 76-81 stopping one dimension early
BuildPairs_dropLast(shape) ==
    [k \in 1..(shape.dimension - 1) |-> << shape.sizes[k], shape.strides[k] >>]

\* lines 76-81: the vector of (size, stride) pairs, in descriptor order
BuildPairs(shape) ==
    [k \in 1..shape.dimension |-> << shape.sizes[k], shape.strides[k] >>]

\* the comparator with the tie on stride broken by ascending size
cmp_ascendingSize(a, b) ==
    (a[2] > b[2]) \/ (a[2] = b[2] /\ a[1] < b[1])

\* the comparator without the tie-break on size
cmp_strideOnly(a, b) ==
    a[2] > b[2]

\* the comparator with >= in the tie-break on size
cmp_nonStrict(a, b) ==
    (a[2] > b[2]) \/ (a[2] = b[2] /\ a[1] >= b[1])

\* lines 84-87: the comparator; a pair is <<first, second>> = <<size, stride>>
cmp(a, b) ==
    (a[2] > b[2]) \/ (a[2] = b[2] /\ a[1] > b[1])

\* std::sort with cmp, as an insertion sort: x goes before the first
\* element it must precede
RECURSIVE Insert(_, _)
Insert(s, x) ==
    IF s = << >> THEN << x >>
    ELSE IF cmp(x, Head(s)) THEN << x >> \o s
    ELSE << Head(s) >> \o Insert(Tail(s), x)

RECURSIVE SortPairs(_)
SortPairs(s) ==
    IF s = << >> THEN << >>
    ELSE Insert(SortPairs(SubSeq(s, 1, Len(s) - 1)), s[Len(s)])

\* lines 89-92: AddDim(s_s.first) for every pair, in order
AddDims(pairs) ==
    [k \in 1..Len(pairs) |-> pairs[k][1]]

(***************************************************************************)
(* Calls recorded in the trace of an invocation.                           *)
(***************************************************************************)
Call(op, shape, a, b, c) ==
    [op |-> op, shape |-> shape, src |-> a, layout |-> b, dst |-> c]

SetOutputCall(t) == Call("set_output", << >>, t, NullTensor, NullTensor)
CheckEqCall(a, b) == Call("CHECK_EQ", << >>, << a, b >>, NullTensor, NullTensor)
AllocateCall(shape, t) == Call("allocate_output", shape, NullTensor, NullTensor, t)
ConvertCall(src, layout, dst) == Call("GetConvertedFlatData", << >>, src, layout, dst)

Calls(i, op) == { k \in 1..Len(trace[i]) : trace[i][k].op = op }

(***************************************************************************)
(* Construction, lines 44-47.                                              *)
(***************************************************************************)
Init ==
    /\ data_format_str = [k \in Kernels |-> NodeDef(k).data_format]
    /\ op_data_type = [k \in Kernels |-> NodeDef(k).T]
    /\ pc = [i \in Invocations |-> "idle"]
    /\ input = [i \in Invocations |->
                  [kernel |-> "k1", tensor |-> NullTensor, shape |-> TfShape]]
    /\ shape_size = [i \in Invocations |-> << >>]
    /\ output_shape = [i \in Invocations |-> << >>]
    /\ output_tensor = [i \in Invocations |-> NullTensor]
    /\ out_slot = [i \in Invocations |-> NullTensor]
    /\ ctx_status = [i \in Invocations |-> "OK"]
    /\ trace = [i \in Invocations |-> << >>]
    /\ aborted = FALSE

(***************************************************************************)
(* Compute, lines 49-112.                                                  *)
(***************************************************************************)
\* lines 49-53: the runtime calls Compute of kernel k; input 0 and its
\* MklShape (a plain Tf tensor, or an MKL tensor with one of the
\* descriptors descs) are read from the context
InvokeWith(i, descs) ==
    /\ ~aborted
    /\ pc[i] = "idle"
    /\ \E k \in Kernels :
         \E s \in {TfShape} \cup { MklShapeOf(i, p) : p \in descs } :
            input' = [input EXCEPT ![i] =
                        [kernel |-> k, tensor |-> InputTensor(i), shape |-> s]]
    /\ pc' = [pc EXCEPT ![i] = "L56"]
    /\ UNCHANGED << data_format_str, op_data_type, shape_size, output_shape,
                    output_tensor, out_slot, ctx_status, trace, aborted >>

Invoke(i) == InvokeWith(i, Descriptors)

\* a pass-through that copies the input into a freshly allocated output
PassThrough_copy(i) ==
    /\ ~aborted
    /\ pc[i] = "L56"
    /\ ~input[i].shape.isMklTensor
    /\ out_slot' = [out_slot EXCEPT ![i] = AllocatedTensor(i)]
    /\ trace' = [trace EXCEPT ![i] =
                   Append(@, AllocateCall(<< >>, AllocatedTensor(i)))]
    /\ pc' = [pc EXCEPT ![i] = "done"]
    /\ UNCHANGED << data_format_str, op_data_type, input, shape_size,
                    output_shape, output_tensor, ctx_status, aborted >>

\* lines 56-61: the input is already in Tf format
PassThrough(i) ==
    /\ ~aborted
    /\ pc[i] = "L56"
    /\ ~input[i].shape.isMklTensor
    /\ out_slot' = [out_slot EXCEPT ![i] = input[i].tensor]
    /\ trace' = [trace EXCEPT ![i] = Append(@, SetOutputCall(input[i].tensor))]
    /\ pc' = [pc EXCEPT ![i] = "done"]
    /\ UNCHANGED << data_format_str, op_data_type, input, shape_size,
                    output_shape, output_tensor, ctx_status, aborted >>

\* the type check without the CHECK_EQ of line 68
CheckTypes_inputOnly(k) ==
    op_data_type[k] = input_type(k)

\* lines 65-68: both CHECK_EQ pass
CheckTypes(k) ==
    /\ op_data_type[k] = input_type(k)
    /\ op_data_type[k] = output_type(k)

\* lines 56, 65-68: an MKL tensor whose types agree goes on
TypeCheckPass(i) ==
    /\ ~aborted
    /\ pc[i] = "L56"
    /\ input[i].shape.isMklTensor
    /\ CheckTypes(input[i].kernel)
    /\ trace' = [trace EXCEPT ![i] =
                   Append(@, CheckEqCall(input_type(input[i].kernel),
                                         output_type(input[i].kernel)))]
    /\ pc' = [pc EXCEPT ![i] = "L74"]
    /\ UNCHANGED << data_format_str, op_data_type, input, shape_size,
                    output_shape, output_tensor, out_slot, ctx_status, aborted >>

\* lines 56, 65-68: a failed CHECK_EQ ends the process
TypeCheckAbort(i) ==
    /\ ~aborted
    /\ pc[i] = "L56"
    /\ input[i].shape.isMklTensor
    /\ ~CheckTypes(input[i].kernel)
    /\ aborted' = TRUE
    /\ pc' = [pc EXCEPT ![i] = "aborted"]
    /\ UNCHANGED << data_format_str, op_data_type, input, shape_size,
                    output_shape, output_tensor, out_slot, ctx_status, trace >>

\* shape reconstruction into a TensorShape held by the kernel instead of the
\* stack: every invocation sees the last shape built
Reconstruct_sharedShape(i) ==
    /\ ~aborted
    /\ pc[i] = "L74"
    /\ shape_size' = [shape_size EXCEPT ![i] = SortPairs(BuildPairs(input[i].shape))]
    /\ output_shape' = [j \in Invocations |-> AddDims(shape_size'[i])]
    /\ pc' = [pc EXCEPT ![i] = "L95"]
    /\ UNCHANGED << data_format_str, op_data_type, input, output_tensor,
                    out_slot, ctx_status, trace, aborted >>

\* lines 74-92: pairs, sort, dimensions
Reconstruct(i) ==
    /\ ~aborted
    /\ pc[i] = "L74"
    /\ shape_size' = [shape_size EXCEPT ![i] = SortPairs(BuildPairs(input[i].shape))]
    /\ output_shape' = [output_shape EXCEPT ![i] = AddDims(shape_size'[i])]
    /\ pc' = [pc EXCEPT ![i] = "L95"]
    /\ UNCHANGED << data_format_str, op_data_type, input, output_tensor,
                    out_slot, ctx_status, trace, aborted >>

\* OpKernelContext::allocate_output(0, shape, &output_tensor): on success the
\* new tensor is stored in output 0 and handed back; on failure nothing is
\* stored and the allocator's status is returned
allocate_output(i, shape, ok) ==
    IF ok
    THEN [status |-> "OK", tensor |-> AllocatedTensor(i), slot |-> AllocatedTensor(i)]
    ELSE [status |-> "RESOURCE_EXHAUSTED", tensor |-> NullTensor, slot |-> out_slot[i]]

\* the allocation without OP_REQUIRES_OK: the status is dropped and Compute
\* goes on
Allocate_ignoreStatus(i) ==
    /\ ~aborted
    /\ pc[i] = "L95"
    /\ \E ok \in BOOLEAN :
         LET r == allocate_output(i, output_shape[i], ok) IN
            /\ trace' = [trace EXCEPT ![i] =
                           Append(@, AllocateCall(output_shape[i], r.tensor))]
            /\ out_slot' = [out_slot EXCEPT ![i] = r.slot]
            /\ output_tensor' = [output_tensor EXCEPT ![i] = r.tensor]
            /\ pc' = [pc EXCEPT ![i] = "L100"]
    /\ UNCHANGED << data_format_str, op_data_type, input, shape_size,
                    output_shape, ctx_status, aborted >>

\* lines 95-97: OP_REQUIRES_OK(context, allocate_output(...)) records a
\* failure in the context and returns from Compute
Allocate(i) ==
    /\ ~aborted
    /\ pc[i] = "L95"
    /\ \E ok \in BOOLEAN :
         LET r == allocate_output(i, output_shape[i], ok) IN
            /\ trace' = [trace EXCEPT ![i] =
                           Append(@, AllocateCall(output_shape[i], r.tensor))]
            /\ out_slot' = [out_slot EXCEPT ![i] = r.slot]
            /\ output_tensor' = [output_tensor EXCEPT ![i] = r.tensor]
            /\ IF r.status = "OK"
               THEN /\ pc' = [pc EXCEPT ![i] = "L100"]
                    /\ UNCHANGED ctx_status
               ELSE /\ pc' = [pc EXCEPT ![i] = "done"]
                    /\ ctx_status' = [ctx_status EXCEPT ![i] = r.status]
    /\ UNCHANGED << data_format_str, op_data_type, input, shape_size,
                    output_shape, aborted >>

\* the conversion with the two buffers exchanged
Convert_swapped(i) ==
    /\ ~aborted
    /\ pc[i] = "L100"
    /\ trace' = [trace EXCEPT ![i] =
                   Append(@, ConvertCall(Buffer(output_tensor[i]),
                                         input[i].shape.tfLayout,
                                         Buffer(input[i].tensor)))]
    /\ pc' = [pc EXCEPT ![i] = "done"]
    /\ UNCHANGED << data_format_str, op_data_type, input, shape_size,
                    output_shape, output_tensor, out_slot, ctx_status, aborted >>

\* lines 100-111: the conversion primitive
Convert(i) ==
    /\ ~aborted
    /\ pc[i] = "L100"
    /\ trace' = [trace EXCEPT ![i] =
                   Append(@, ConvertCall(Buffer(input[i].tensor),
                                         input[i].shape.tfLayout,
                                         Buffer(output_tensor[i])))]
    /\ pc' = [pc EXCEPT ![i] = "done"]
    /\ UNCHANGED << data_format_str, op_data_type, input, shape_size,
                    output_shape, output_tensor, out_slot, ctx_status, aborted >>

Next ==
    \E i \in Invocations :
        \/ Invoke(i)
        \/ PassThrough(i)
        \/ TypeCheckPass(i)
        \/ TypeCheckAbort(i)
        \/ Reconstruct(i)
        \/ Allocate(i)
        \/ Convert(i)

Spec == Init /\ [][Next]_vars

\* one worker thread: a single invocation, nothing else running
NextSingle ==
    \/ InvokeWith("t1", WideDescriptors)
    \/ PassThrough("t1")
    \/ TypeCheckPass("t1")
    \/ TypeCheckAbort("t1")
    \/ Reconstruct("t1")
    \/ Allocate("t1")
    \/ Convert("t1")

SpecSingle == Init /\ [][NextSingle]_vars

(***************************************************************************)
(* Vocabulary of the properties.                                           *)
(***************************************************************************)
Started(i) == pc[i] # "idle"
OnConversionPath(i) == Started(i) /\ input[i].shape.isMklTensor
Reconstructed(i) == OnConversionPath(i) /\ pc[i] \in {"L95", "L100", "done"}

\* the (size, stride) pair of dimension k of the descriptor of invocation i
DescPair(i, k) == << input[i].shape.sizes[k], input[i].shape.strides[k] >>
DescPairs(i) == [k \in 1..input[i].shape.dimension |-> DescPair(i, k)]

\* the multiset of the elements of a sequence
BagOfSeq(s) ==
    [x \in { s[k] : k \in DOMAIN s } |-> Cardinality({ k \in DOMAIN s : s[k] = x })]

RECURSIVE Product(_)
Product(s) == IF s = << >> THEN 1 ELSE Head(s) * Product(Tail(s))

\* descending stride, equal strides by descending size
OrderedByStrideThenSize(s) ==
    \A k \in 1..(Len(s) - 1) :
        \/ s[k][2] > s[k + 1][2]
        \/ (s[k][2] = s[k + 1][2] /\ s[k][1] >= s[k + 1][1])

AllocateCalls(i) == Calls(i, "allocate_output")
ConvertCalls(i) == Calls(i, "GetConvertedFlatData")

(***************************************************************************)
(* C1.  Pass-through.                                                      *)
(***************************************************************************)
\* C1: an invocation whose MklShape reports IsMklTensor() == false, whatever
\* the type tags of its kernel, never calls the allocator or the conversion
\* primitive, and ends with output 0 set to the input tensor itself.
C1_PassThroughIdentity ==
    \A i \in Invocations :
        (Started(i) /\ ~input[i].shape.isMklTensor) =>
            /\ pc[i] \in {"L56", "done"}
            /\ AllocateCalls(i) = {}
            /\ ConvertCalls(i) = {}
            /\ pc[i] = "L56" => (out_slot[i] = NullTensor /\ trace[i] = << >>)
            /\ pc[i] = "done" =>
                 /\ out_slot[i] = input[i].tensor
                 /\ out_slot[i] = InputTensor(i)
                 /\ trace[i] = << SetOutputCall(InputTensor(i)) >>
                 /\ ctx_status[i] = "OK"

\* a finished pass-through on a kernel whose type tags disagree
C1_Witness ==
    \E i \in Invocations :
        /\ pc[i] = "done"
        /\ ~input[i].shape.isMklTensor
        /\ input_type(input[i].kernel) # op_data_type[input[i].kernel]
        /\ out_slot[i] = InputTensor(i)

(***************************************************************************)
(* C2.  Shape reconstruction.                                              *)
(***************************************************************************)
\* C2: on the conversion path the sorted vector is a rearrangement of the
\* descriptor's (size, stride) pairs in order of descending stride, equal
\* strides by descending size; the shape built from it, outermost first, is
\* the shape every allocate_output call asks for.  [(3,1),(4,12),(2,6)]
\* gives [4,2,3] and [(5,4),(2,4)] gives [5,2].
C2_ShapeReconstruction ==
    /\ AddDims(SortPairs(<< <<3, 1>>, <<4, 12>>, <<2, 6>> >>)) = << 4, 2, 3 >>
    /\ AddDims(SortPairs(<< <<5, 4>>, <<2, 4>> >>)) = << 5, 2 >>
    /\ \A i \in Invocations :
        /\ Reconstructed(i) =>
            /\ BagOfSeq(shape_size[i]) = BagOfSeq(DescPairs(i))
            /\ OrderedByStrideThenSize(shape_size[i])
            /\ Len(output_shape[i]) = Len(shape_size[i])
            /\ \A k \in 1..Len(shape_size[i]) : output_shape[i][k] = shape_size[i][k][1]
        /\ OnConversionPath(i) =>
            \A c \in AllocateCalls(i) :
                Reconstructed(i) /\ trace[i][c].shape = output_shape[i]

\* the descriptor [(3,1),(4,12),(2,6)] was allocated as [4,2,3]
C2_Witness ==
    \E i \in Invocations :
        /\ pc[i] = "done"
        /\ OnConversionPath(i)
        /\ DescPairs(i) = << <<3, 1>>, <<4, 12>>, <<2, 6>> >>
        /\ \E c \in AllocateCalls(i) : trace[i][c].shape = << 4, 2, 3 >>

(***************************************************************************)
(* C3.  Type checks.                                                       *)
(***************************************************************************)
\* C3 as stated: an invocation whose operator type tag, input type and output
\* type are not all equal never gets past the type check, requests no
\* allocation, makes no conversion and writes nothing to output 0.
C3_AsStated ==
    \A i \in Invocations :
        (Started(i) /\ ~( /\ op_data_type[input[i].kernel] = input_type(input[i].kernel)
                          /\ op_data_type[input[i].kernel] = output_type(input[i].kernel))) =>
            /\ pc[i] \in {"L56", "aborted"}
            /\ out_slot[i] = NullTensor
            /\ AllocateCalls(i) = {}
            /\ ConvertCalls(i) = {}

\* C3, amended: an invocation on the conversion path (its MklShape reports an
\* MKL tensor) whose operator type tag, input type and output type are not
\* all equal aborts at the type check: it never gets past it, requests no
\* allocation, makes no conversion and writes nothing to output 0.
C3_TypeConsistency ==
    \A i \in Invocations :
        (OnConversionPath(i) /\
             ~( /\ op_data_type[input[i].kernel] = input_type(input[i].kernel)
                /\ op_data_type[input[i].kernel] = output_type(input[i].kernel))) =>
            /\ pc[i] \in {"L56", "aborted"}
            /\ pc[i] = "aborted" => aborted
            /\ out_slot[i] = NullTensor
            /\ trace[i] = << >>
            /\ ctx_status[i] = "OK"

\* an invocation aborted because only the output type disagrees
C3_Witness ==
    \E i \in Invocations :
        /\ pc[i] = "aborted"
        /\ input[i].shape.isMklTensor
        /\ op_data_type[input[i].kernel] = input_type(input[i].kernel)
        /\ op_data_type[input[i].kernel] # output_type(input[i].kernel)

(***************************************************************************)
(* C4.  Allocation failure.                                                *)
(***************************************************************************)
\* C4: on the conversion path, once allocate_output has failed the invocation
\* is over with the allocator's status in its context, output 0 is unset and
\* the conversion primitive is not called.
C4_AllocationFailure ==
    \A i \in Invocations :
        \A c \in AllocateCalls(i) :
            trace[i][c].dst = NullTensor =>
                /\ pc[i] = "done"
                /\ ctx_status[i] = "RESOURCE_EXHAUSTED"
                /\ out_slot[i] = NullTensor
                /\ ConvertCalls(i) = {}
                /\ c = Len(trace[i])

\* an invocation whose allocation of a three-dimensional shape failed
C4_Witness ==
    \E i \in Invocations :
        /\ OnConversionPath(i)
        /\ pc[i] = "done"
        /\ ctx_status[i] = "RESOURCE_EXHAUSTED"
        /\ \E c \in AllocateCalls(i) :
             trace[i][c].dst = NullTensor /\ Len(trace[i][c].shape) = 3

(***************************************************************************)
(* C5.  Element count.                                                     *)
(***************************************************************************)
\* C5: on the conversion path the reconstructed shape has as many dimensions
\* as the descriptor, is a rearrangement of the descriptor's sizes, and has
\* the same product.
C5_ElementCount ==
    \A i \in Invocations :
        Reconstructed(i) =>
            /\ Len(output_shape[i]) = input[i].shape.dimension
            /\ BagOfSeq(output_shape[i]) = BagOfSeq(input[i].shape.sizes)
            /\ Product(output_shape[i]) = Product(input[i].shape.sizes)

\* a reconstructed shape that differs from the descriptor's order of sizes
C5_Witness ==
    \E i \in Invocations :
        /\ Reconstructed(i)
        /\ input[i].shape.dimension = 3
        /\ output_shape[i] # input[i].shape.sizes
        /\ Product(output_shape[i]) = 24

(***************************************************************************)
(* C6.  Dependence on the multiset of pairs only.                          *)
(***************************************************************************)
\* C6: two invocations on the conversion path whose descriptors hold the
\* same multiset of (size, stride) pairs, in whatever order and on kernels
\* with whatever data_format, build the same shape and ask the allocator
\* for the same shape.
C6_MultisetOnly ==
    \A i, j \in Invocations :
        (/\ Reconstructed(i)
         /\ Reconstructed(j)
         /\ BagOfSeq(DescPairs(i)) = BagOfSeq(DescPairs(j))) =>
            /\ output_shape[i] = output_shape[j]
            /\ \A c \in AllocateCalls(i), d \in AllocateCalls(j) :
                 trace[i][c].shape = trace[j][d].shape

\* two invocations, on kernels of different data_format, whose descriptors
\* list the same pairs (a stride tie among them) in different orders
C6_Witness ==
    \E i, j \in Invocations :
        /\ pc[i] = "done" /\ pc[j] = "done"
        /\ AllocateCalls(i) # {} /\ AllocateCalls(j) # {}
        /\ data_format_str[input[i].kernel] # data_format_str[input[j].kernel]
        /\ DescPairs(i) = << <<2, 4>>, <<3, 1>>, <<5, 4>> >>
        /\ DescPairs(j) = << <<5, 4>>, <<2, 4>>, <<3, 1>> >>

(***************************************************************************)
(* C7.  Ties under the comparator.                                         *)
(***************************************************************************)
\* C7 as stated: no two dimensions of a descriptor handed to Compute are
\* tied under the comparator.
C7_AsStated ==
    \A i \in Invocations :
        OnConversionPath(i) =>
            \A k, l \in 1..input[i].shape.dimension :
                k # l => (cmp(DescPair(i, k), DescPair(i, l)) \/
                          cmp(DescPair(i, l), DescPair(i, k)))

\* C7, amended: two dimensions of a descriptor are tied under the comparator
\* only when they have the same size and the same stride; in the sorted
\* vector every earlier pair either precedes the later one under the
\* comparator or is equal to it.
C7_TiesOnlyBetweenEqualPairs ==
    \A i \in Invocations :
        /\ OnConversionPath(i) =>
            \A k, l \in 1..input[i].shape.dimension :
                DescPair(i, k) # DescPair(i, l) =>
                    (cmp(DescPair(i, k), DescPair(i, l)) \/
                     cmp(DescPair(i, l), DescPair(i, k)))
        /\ Reconstructed(i) =>
            \A k, l \in 1..Len(shape_size[i]) :
                k < l => (cmp(shape_size[i][k], shape_size[i][l]) \/
                          shape_size[i][k] = shape_size[i][l])

\* a sorted descriptor with two identical degenerate dimensions (size 1,
\* stride 1) that tie with a third dimension on stride
C7_Witness ==
    \E i \in Invocations :
        /\ Reconstructed(i)
        /\ DescPairs(i) = << <<1, 1>>, <<3, 1>>, <<1, 1>> >>
        /\ shape_size[i] = << <<3, 1>>, <<1, 1>>, <<1, 1>> >>

(***************************************************************************)
(* C8.  Order of the steps on the conversion path.                         *)
(***************************************************************************)
\* C8: on the conversion path the calls are, in order, the type check, one
\* allocate_output and one conversion; the conversion is made at most once,
\* only after the type checks passed and the allocation succeeded, with the
\* input's buffer, the Tf layout of the input's MklShape and the buffer of
\* the tensor allocate_output put in output 0; an invocation that ends
\* without error has made it exactly once.
C8_ConversionOrder ==
    \A i \in Invocations :
        OnConversionPath(i) =>
            /\ Len(trace[i]) <= 3
            /\ \A k \in 1..Len(trace[i]) :
                 trace[i][k].op = << "CHECK_EQ", "allocate_output",
                                     "GetConvertedFlatData" >>[k]
            /\ Cardinality(ConvertCalls(i)) <= 1
            /\ Len(trace[i]) >= 1 =>
                 /\ op_data_type[input[i].kernel] = input_type(input[i].kernel)
                 /\ op_data_type[input[i].kernel] = output_type(input[i].kernel)
            /\ Len(trace[i]) >= 2 /\ trace[i][2].dst # NullTensor =>
                 /\ trace[i][2].dst = AllocatedTensor(i)
                 /\ out_slot[i] = trace[i][2].dst
            /\ Len(trace[i]) = 3 =>
                 /\ trace[i][2].dst # NullTensor
                 /\ trace[i][3].src = Buffer(InputTensor(i))
                 /\ trace[i][3].layout = input[i].shape.tfLayout
                 /\ trace[i][3].layout = TfLayout(i)
                 /\ trace[i][3].dst = Buffer(out_slot[i])
                 /\ pc[i] = "done"
            /\ (pc[i] = "done" /\ ctx_status[i] = "OK") =>
                 Cardinality(ConvertCalls(i)) = 1

\* a finished conversion
C8_Witness ==
    \E i \in Invocations :
        /\ OnConversionPath(i)
        /\ pc[i] = "done"
        /\ ctx_status[i] = "OK"
        /\ Len(trace[i]) = 3
        /\ trace[i][3].op = "GetConvertedFlatData"

(***************************************************************************)
(* C9.  Independence of concurrent invocations.                            *)
(***************************************************************************)
\* what an invocation of kernel k on tensor t with MklShape s does when it
\* runs alone, as the set of its possible final results
AloneOutcomes(i, k, t, s) ==
    IF ~s.isMklTensor
    THEN { [pc |-> "done", out |-> t, status |-> "OK",
            trace |-> << SetOutputCall(t) >>] }
    ELSE IF ~(NodeDef(k).T = input_type(k) /\ NodeDef(k).T = output_type(k))
    THEN { [pc |-> "aborted", out |-> NullTensor, status |-> "OK",
            trace |-> << >>] }
    ELSE LET shape == AddDims(SortPairs(BuildPairs(s)))
             check == CheckEqCall(input_type(k), output_type(k))
         IN { [pc |-> "done", out |-> AllocatedTensor(i), status |-> "OK",
               trace |-> << check, AllocateCall(shape, AllocatedTensor(i)),
                            ConvertCall(Buffer(t), s.tfLayout,
                                        Buffer(AllocatedTensor(i))) >>],
              [pc |-> "done", out |-> NullTensor,
               status |-> "RESOURCE_EXHAUSTED",
               trace |-> << check, AllocateCall(shape, NullTensor) >>] }

Outcome(i) ==
    [pc |-> pc[i], out |-> out_slot[i], status |-> ctx_status[i],
     trace |-> trace[i]]

Ended(i) == pc[i] \in {"done", "aborted"}

\* C9 as stated: under every interleaving every invocation has the result it
\* has when it runs alone on the same kernel and input (so an invocation cut
\* short by a failed check of another invocation of its kernel would have
\* failed that check alone), and data_format_str and op_data_type keep the
\* values construction gave them.
C9_AsStated ==
    /\ data_format_str = [k \in Kernels |-> NodeDef(k).data_format]
    /\ op_data_type = [k \in Kernels |-> NodeDef(k).T]
    /\ \A i \in Invocations :
         /\ Ended(i) =>
              Outcome(i) \in AloneOutcomes(i, input[i].kernel, input[i].tensor,
                                           input[i].shape)
         /\ (/\ Started(i)
             /\ ~Ended(i)
             /\ \E j \in Invocations :
                  pc[j] = "aborted" /\ input[j].kernel = input[i].kernel) =>
              \E o \in AloneOutcomes(i, input[i].kernel, input[i].tensor,
                                     input[i].shape) : o.pc = "aborted"

\* C9, amended: under every interleaving, an invocation that has returned
\* from Compute or failed its own type check has the result it has when it
\* runs alone on the same kernel and input, and data_format_str and
\* op_data_type keep the values construction gave them.  (A failed CHECK_EQ
\* ends the process, and with it the invocations still running.)
C9_InvocationIndependence ==
    /\ data_format_str = [k \in Kernels |-> NodeDef(k).data_format]
    /\ op_data_type = [k \in Kernels |-> NodeDef(k).T]
    /\ \A i \in Invocations :
         Ended(i) =>
            Outcome(i) \in AloneOutcomes(i, input[i].kernel, input[i].tensor,
                                         input[i].shape)

\* two invocations of the same kernel on different descriptors, one finished
\* after the other had built its shape and before it allocated
C9_Witness ==
    \E i, j \in Invocations :
        /\ i # j
        /\ input[i].kernel = input[j].kernel
        /\ pc[i] = "done" /\ Len(trace[i]) = 3
        /\ pc[j] = "L95"
        /\ output_shape[i] # output_shape[j]

(***************************************************************************)
(* C10.  The comparator is a strict weak ordering.                         *)
(***************************************************************************)
\* the pairs of the descriptors in use
PairsInUse == UNION { { DescPair(i, k) : k \in 1..input[i].shape.dimension } :
                        i \in { j \in Invocations : OnConversionPath(j) } }

\* the rearrangements of a sequence of pairs
Rearrangements(s) ==
    { q \in [1..Len(s) -> { s[k] : k \in DOMAIN s }] : BagOfSeq(q) = BagOfSeq(s) }

\* no pair of q stands after one it must precede
SortedUnderCmp(q) ==
    \A k, l \in 1..Len(q) : k < l => ~cmp(q[l], q[k])

\* C10: on the pairs handed to Compute the comparator is irreflexive,
\* asymmetric and transitive, two pairs are incomparable only when equal in
\* size and stride, and every rearrangement of a descriptor that is sorted
\* under the comparator has the sequence of sizes Compute built.
C10_StrictWeakOrdering ==
    /\ \A a \in PairsInUse : ~cmp(a, a)
    /\ \A a, b \in PairsInUse : cmp(a, b) => ~cmp(b, a)
    /\ \A a, b, c \in PairsInUse : (cmp(a, b) /\ cmp(b, c)) => cmp(a, c)
    /\ \A a, b \in PairsInUse : (~cmp(a, b) /\ ~cmp(b, a)) => a = b
    /\ \A i \in Invocations :
         (OnConversionPath(i) /\ pc[i] = "L95") =>
            /\ SortedUnderCmp(shape_size[i])
            /\ \A q \in Rearrangements(DescPairs(i)) :
                 SortedUnderCmp(q) => AddDims(q) = output_shape[i]

\* a sorted descriptor in which all three pairs of the chain
\* (5,4) before (2,4) before (3,1) occur, out of order
C10_Witness ==
    \E i \in Invocations :
        /\ OnConversionPath(i)
        /\ pc[i] = "L95"
        /\ DescPairs(i) = << <<3, 1>>, <<5, 4>>, <<2, 4>> >>
        /\ PairsInUse = { <<3, 1>>, <<5, 4>>, <<2, 4>> }
        /\ output_shape[i] = << 5, 2, 3 >>

====
